---------------------------- MODULE Spec2Model ----------------------------
(***************************************************************************)
(* A model of video_note_agent: the pipeline of main.py                    *)
(* (process_video_to_notes), the subtitle formatter and statistics of      *)
(* tools/subtitle_generator.py and the note generator of                   *)
(* tools/note_generator.py.                                                *)
(*                                                                         *)
(* Text is a sequence of one-character strings.  A time in seconds is a    *)
(* rational  whole + frac / FracDen  kept as the record [whole, frac].     *)
(* Python's None is the one-element sequence <<"None">>, which is no text  *)
(* because "None" is not one character.                                    *)
(***************************************************************************)
EXTENDS Integers, Sequences, FiniteSets, TLC

VARIABLES
    seconds,        \* _format_time / _format_time_vtt: the argument
    srt_time,       \* _format_time: the value returned, None before the call
    vtt_time,       \* _format_time_vtt: the value returned, None before the call
    transcription,  \* the Transcript: [full_text, segments, language, duration]
    fs,             \* the files that exist: path -> content
    last_call,      \* save_subtitle_file: the last call, its outcome, the files before it
    stats,          \* get_transcription_stats: the last call's outcome
    note_text,      \* _extract_sections: the argument, the note text
    sections,       \* _extract_sections: the value returned, None before the call
    keywords,       \* _extract_keywords: the list returned, None before the call
    maps,           \* _extract_map_suggestions: the list returned, None before the call
    pc,             \* process_video_to_notes: the statement it stands before
    args,           \* process_video_to_notes: video_path, video_title, save_subtitles
    video_title,    \* process_video_to_notes: the local video_title
    locals,         \* process_video_to_notes: extracted_title, markdown_path
    notes,          \* process_video_to_notes: what generate_learning_notes returned
    exc,            \* the exception on its way to the except clause
    result,         \* process_video_to_notes: the dict returned
    hist            \* history: stages started and completed, the stage that
                    \* raised, what the language-model call did

timeVars == <<seconds, srt_time, vtt_time>>

fmtVars == <<transcription, fs, last_call, stats>>

textVars == <<note_text, sections, keywords, maps>>

pipeVars == <<pc, args, video_title, locals, notes, exc, result, hist>>

vars == <<timeVars, fmtVars, textVars, pipeVars>>

---------------------------------------------------------------------------
(* Bounds of the model *)

\* A second is divided into FracDen parts: the resolution of a time's fraction.
FracDen == 2000

\* The longest segment list of a transcript.
MaxSegs == 2

\* The longest note text the extractor specification draws.
MaxText == 4

\* The most pieces a note text of the keyword specification is made of.
MaxKwTokens == 5

\* The most pieces a note text of the map specification is made of.
MaxMapTokens == 5

\* The longest title the persistence specification draws.
MaxTitle == 2

---------------------------------------------------------------------------
(* Text *)

None == <<"None">>

DigitChars == <<"0", "1", "2", "3", "4", "5", "6", "7", "8", "9">>

IsDigit(c) == \E d \in 1..10 : DigitChars[d] = c

DigitValue(c) == (CHOOSE d \in 1..10 : DigitChars[d] = c) - 1

\* str(n) / format(n, "d") for n >= 0
RECURSIVE IntToStr(_)
IntToStr(n) ==
    IF n < 10 THEN <<DigitChars[n + 1]>>
    ELSE IntToStr(n \div 10) \o <<DigitChars[(n % 10) + 1]>>

\* the zero padding of the format specs 02d and 03d: to at least w characters
RECURSIVE ZeroPad(_, _)
ZeroPad(s, w) == IF Len(s) >= w THEN s ELSE ZeroPad(<<"0">> \o s, w)

---------------------------------------------------------------------------
(* Timecode formatter: subtitle_generator.py, _format_time, _format_time_vtt *)

Hours(t) == t.whole \div 3600

Minutes(t) == (t.whole % 3600) \div 60

Secs(t) == t.whole % 60

\* int((seconds % 1) * 1000): int() truncates
Millisecs(t) == (t.frac * 1000) \div FracDen

FormatTime(t) ==
    ZeroPad(IntToStr(Hours(t)), 2) \o <<":">> \o
    ZeroPad(IntToStr(Minutes(t)), 2) \o <<":">> \o
    ZeroPad(IntToStr(Secs(t)), 2) \o <<",">> \o
    ZeroPad(IntToStr(Millisecs(t)), 3)

\* A slip that rounds the milliseconds to the nearest and caps the hours at 99.
FormatTimeVttRounded(t) ==
    ZeroPad(IntToStr(Hours(t) % 100), 2) \o <<":">> \o
    ZeroPad(IntToStr(Minutes(t)), 2) \o <<":">> \o
    ZeroPad(IntToStr(Secs(t)), 2) \o <<".">> \o
    ZeroPad(IntToStr(((t.frac * 1000) + (FracDen \div 2)) \div FracDen), 3)

FormatTimeVtt(t) ==
    ZeroPad(IntToStr(Hours(t)), 2) \o <<":">> \o
    ZeroPad(IntToStr(Minutes(t)), 2) \o <<":">> \o
    ZeroPad(IntToStr(Secs(t)), 2) \o <<".">> \o
    ZeroPad(IntToStr(Millisecs(t)), 3)

---------------------------------------------------------------------------
(* More text: str.strip, str.split, str.join *)

\* The whitespace str.strip() removes, among the characters of the model.
IsSpace(c) == c \in {" ", "\n", "\t"}

RECURSIVE LStrip(_)
LStrip(s) == IF s # <<>> /\ IsSpace(Head(s)) THEN LStrip(Tail(s)) ELSE s

RECURSIVE RStrip(_)
RStrip(s) ==
    IF s # <<>> /\ IsSpace(s[Len(s)]) THEN RStrip(SubSeq(s, 1, Len(s) - 1)) ELSE s

\* s.strip()
Strip(s) == RStrip(LStrip(s))

\* sep.join(parts), sep a text
RECURSIVE Join(_, _)
Join(parts, sep) ==
    IF parts = <<>> THEN <<>>
    ELSE IF Len(parts) = 1 THEN parts[1]
    ELSE parts[1] \o sep \o Join(Tail(parts), sep)

\* s.split(c), c one character: "".split(c) is [""]
RECURSIVE Split(_, _)
Split(s, c) ==
    IF \A i \in 1..Len(s) : s[i] # c THEN <<s>>
    ELSE LET k == CHOOSE i \in 1..Len(s) :
                      s[i] = c /\ \A j \in 1..(i - 1) : s[j] # c
         IN  <<SubSeq(s, 1, k - 1)>> \o Split(SubSeq(s, k + 1, Len(s)), c)

---------------------------------------------------------------------------
(* Transcript formatter: subtitle_generator.py, _format_srt, _format_vtt,  *)
(* _format_txt, save_subtitle_file                                         *)

NL == <<"\n">>

Arrow == <<" ", "-", "-", ">", " ">>

\* f"{i}\n{start_time} --> {end_time}\n{text}\n"
SrtBlock(i, segment) ==
    IntToStr(i) \o NL \o
    FormatTime(segment.start) \o Arrow \o FormatTime(segment.end) \o NL \o
    Strip(segment.text) \o NL

\* A slip that numbers the blocks as enumerate(segments) does, from 0.
FormatSrtFromZero(segments) ==
    Join([i \in 1..Len(segments) |-> SrtBlock(i - 1, segments[i])], NL)

\* enumerate(segments, 1): the index is a local of the call
FormatSrt(segments) ==
    Join([i \in 1..Len(segments) |-> SrtBlock(i, segments[i])], NL)

\* f"{start_time} --> {end_time}\n{text}\n"
VttBlock(segment) ==
    FormatTimeVtt(segment.start) \o Arrow \o FormatTimeVtt(segment.end) \o NL \o
    Strip(segment.text) \o NL

WebVtt == <<"W", "E", "B", "V", "T", "T">>

\* A slip that emits the header only when there is a block to follow it.
FormatVttNoHeaderWhenEmpty(segments) ==
    IF segments = <<>> THEN <<>>
    ELSE Join(<<WebVtt \o NL>> \o [i \in 1..Len(segments) |-> VttBlock(segments[i])], NL)

FormatVtt(segments) ==
    Join(<<WebVtt \o NL>> \o [i \in 1..Len(segments) |-> VttBlock(segments[i])], NL)

\* f"[{timestamp}] {text}"
TxtLine(segment) ==
    <<"[">> \o FormatTime(segment.start) \o <<"]", " ">> \o Strip(segment.text)

FormatTxt(segments) ==
    Join([i \in 1..Len(segments) |-> TxtLine(segments[i])], NL)

\* open(path, "w") and f.write(content): the file path holds content
FsWrite(files, path, content) ==
    [q \in (DOMAIN files) \cup {path} |-> IF q = path THEN content ELSE files[q]]

EmptyFs == [q \in {} |-> <<>>]

\* A slip that opens the file before it looks at format_type: the file is
\* truncated by the time the format is refused.
SaveSubtitleFileOpenFirst(files, trans, output_path, format_type, io_ok) ==
    LET content ==
            IF format_type = "srt" THEN FormatSrt(trans.segments)
            ELSE IF format_type = "vtt" THEN FormatVtt(trans.segments)
            ELSE IF format_type = "txt" THEN FormatTxt(trans.segments)
            ELSE None
    IN  IF ~io_ok
        THEN [fs |-> files, content |-> content, exc |-> "OSError"]
        ELSE IF content = None
        THEN [fs |-> FsWrite(files, output_path, <<>>), content |-> content,
              exc |-> "ValueError"]
        ELSE [fs |-> FsWrite(files, output_path, content), content |-> content,
              exc |-> ""]

\* save_subtitle_file(transcription, output_path, format_type): the files after
\* the call, the content it built, and the exception it raised ("" for none).
\* io_ok is the environment: whether open(output_path, "w") succeeds.
SaveSubtitleFile(files, trans, output_path, format_type, io_ok) ==
    LET content ==
            IF format_type = "srt" THEN FormatSrt(trans.segments)
            ELSE IF format_type = "vtt" THEN FormatVtt(trans.segments)
            ELSE IF format_type = "txt" THEN FormatTxt(trans.segments)
            ELSE None
    IN  IF content = None
        THEN [fs |-> files, content |-> content, exc |-> "ValueError"]
        ELSE IF ~io_ok
        THEN [fs |-> files, content |-> content, exc |-> "OSError"]
        ELSE [fs |-> FsWrite(files, output_path, content), content |-> content,
              exc |-> ""]

---------------------------------------------------------------------------
(* Transcript statistics: subtitle_generator.py, get_transcription_stats *)

\* sum(s.get("confidence", 0) for s in segments)
RECURSIVE SumConfidence(_)
SumConfidence(segments) ==
    IF segments = <<>> THEN 0
    ELSE Head(segments).confidence + SumConfidence(Tail(segments))

\* a / b of two numbers, b # 0, kept as the fraction
Ratio(a, b) == [num |-> a, den |-> b]

Zero == [num |-> 0, den |-> 1]

NoStats ==
    [state |-> "unset", total_segments |-> 0, total_text_length |-> 0,
     average_confidence |-> Zero, duration |-> 0]

\* A slip that divides without looking at the segment count.
GetTranscriptionStatsUnguarded(trans) ==
    IF Len(trans.segments) = 0
    THEN [NoStats EXCEPT !.state = "ZeroDivisionError"]
    ELSE [state |-> "returned",
          total_segments |-> Len(trans.segments),
          total_text_length |-> Len(trans.full_text),
          average_confidence |->
              Ratio(SumConfidence(trans.segments), Len(trans.segments)),
          duration |-> trans.duration]

GetTranscriptionStats(trans) ==
    [state |-> "returned",
     total_segments |-> Len(trans.segments),
     total_text_length |-> Len(trans.full_text),
     average_confidence |->
         IF trans.segments # <<>>
         THEN Ratio(SumConfidence(trans.segments), Len(trans.segments))
         ELSE Zero,
     duration |-> trans.duration]

---------------------------------------------------------------------------
(* What the operations that are handed the transcript leave of it.  The    *)
(* transcript is a dict holding a list of dicts, handed over by reference: *)
(* an assignment to it inside an operation would show to the caller.       *)

\* A slip in _format_srt, _format_vtt and _format_txt that trims the text in
\* place: segment["text"] = segment["text"].strip()
TranscriptAfterTrimmingInPlace(operation, trans) ==
    IF operation = "save_subtitle_file"
    THEN [trans EXCEPT !.segments =
             [i \in 1..Len(trans.segments) |->
                 [trans.segments[i] EXCEPT !.text = Strip(@)]]]
    ELSE trans

\* The transcript after operation (get_transcription_stats,
\* save_subtitle_file, generate_learning_notes, json.dump) ran over it: each
\* of them reads the dict with get() and [] and builds new values
\* (text = segment["text"].strip(); the dicts of timeline_content); none holds
\* an assignment to the dict, to its segment list or to a segment.
TranscriptAfter(operation, trans) == trans

---------------------------------------------------------------------------
(* Note-content extractor: note_generator.py, _extract_sections *)

\* s.startswith(c), c one character
StartsWith(s, c) == s # <<>> /\ s[1] = c

\* A slip that keeps the line as it stands in the text.
RECURSIVE SectionsOfLinesVerbatim(_)
SectionsOfLinesVerbatim(lines) ==
    IF lines = <<>> THEN <<>>
    ELSE (IF StartsWith(Strip(Head(lines)), "#") THEN <<Head(lines)>> ELSE <<>>)
             \o SectionsOfLinesVerbatim(Tail(lines))

\* for line in lines: if line.strip().startswith('#'): append(line.strip())
RECURSIVE SectionsOfLines(_)
SectionsOfLines(lines) ==
    IF lines = <<>> THEN <<>>
    ELSE (IF StartsWith(Strip(Head(lines)), "#") THEN <<Strip(Head(lines))>> ELSE <<>>)
             \o SectionsOfLines(Tail(lines))

ExtractSections(content) == SectionsOfLines(Split(content, "\n"))

(* Note-content extractor: _extract_keywords, re.findall(r'\*\*(.*?)\*\*') *)

NoNewline(s, from, to) == \A j \in from..to : s[j] # "\n"

\* "**" stands at position i of s
StarsAt(s, i) == i + 1 <= Len(s) /\ s[i] = "*" /\ s[i + 1] = "*"

\* where the closing "**" of a keyword opened at i stands: the nearest one on
\* the same line (.*? is lazy and stops at a newline); 0 when there is none
KeywordClose(s, i) ==
    LET ends == {j \in (i + 2)..Len(s) : StarsAt(s, j) /\ NoNewline(s, i + 2, j - 1)}
    IN  IF ends = {} THEN 0 ELSE CHOOSE j \in ends : \A e \in ends : j <= e

\* the matches from position p on, left to right, none overlapping
RECURSIVE FindKeywords(_, _)
FindKeywords(s, p) ==
    IF p > Len(s) THEN <<>>
    ELSE IF StarsAt(s, p) /\ KeywordClose(s, p) # 0
    THEN <<SubSeq(s, p + 2, KeywordClose(s, p) - 1)>>
             \o FindKeywords(s, KeywordClose(s, p) + 2)
    ELSE FindKeywords(s, p + 1)

Range(q) == {q[i] : i \in 1..Len(q)}

\* list(set(keywords)): the order of the list is that of the set's iteration,
\* so the value is kept as the set
ExtractKeywords(content) == Range(FindKeywords(content, 1))

\* the lists that hold every member of S once
RECURSIVE Orderings(_)
Orderings(S) ==
    IF S = {} THEN {<<>>}
    ELSE UNION {{<<x>> \o l : l \in Orderings(S \ {x})} : x \in S}

\* A slip that returns the matches as findall found them, without set().
KeywordsReturnedAsFound(content) == {FindKeywords(content, 1)}

\* list(set(keywords)): the lists _extract_keywords can return.  The order a
\* set of strings is iterated in depends on the hash seed of the process, so
\* every order is possible.
KeywordsReturned(content) == Orderings(ExtractKeywords(content))

(* Note-content extractor: _extract_map_suggestions,                       *)
(* re.findall(r'\[(.*?)\] - "(.*?)"')                                      *)

MapMid == <<"]", " ", "-", " ", "\"">>

MapMidAt(s, j) == j + Len(MapMid) - 1 <= Len(s) /\ SubSeq(s, j, j + Len(MapMid) - 1) = MapMid

\* the nearest '] - "' after the '[' at i, on the same line; 0 when none
MapMidAfter(s, i) ==
    LET mids == {j \in (i + 1)..Len(s) : MapMidAt(s, j) /\ NoNewline(s, i + 1, j - 1)}
    IN  IF mids = {} THEN 0 ELSE CHOOSE j \in mids : \A e \in mids : j <= e

\* the nearest '"' at or after position from, on the same line; 0 when none
QuoteAfter(s, from) ==
    LET quotes == {k \in from..Len(s) : s[k] = "\"" /\ NoNewline(s, from, k - 1)}
    IN  IF quotes = {} THEN 0 ELSE CHOOSE k \in quotes : \A e \in quotes : k <= e

\* f"{title}: {keyword}"
MapEntry(title, keyword) == title \o <<":", " ">> \o keyword

RECURSIVE FindMaps(_, _)
FindMaps(s, p) ==
    IF p > Len(s) THEN <<>>
    ELSE LET j == IF s[p] = "[" THEN MapMidAfter(s, p) ELSE 0
             k == IF j = 0 THEN 0 ELSE QuoteAfter(s, j + Len(MapMid))
         IN  IF k # 0
             THEN <<MapEntry(SubSeq(s, p + 1, j - 1),
                             SubSeq(s, j + Len(MapMid), k - 1))>>
                      \o FindMaps(s, k + 1)
             ELSE FindMaps(s, p + 1)

\* the list without the entries that stand in it earlier
RECURSIVE FirstOfEach(_)
FirstOfEach(found) ==
    IF found = <<>> THEN <<>>
    ELSE LET before == FirstOfEach(SubSeq(found, 1, Len(found) - 1))
             last == found[Len(found)]
         IN  IF last \in Range(before) THEN before ELSE Append(before, last)

\* A slip that removes the duplicates, as is done for the keywords.
ExtractMapSuggestionsOnce(content) == FirstOfEach(FindMaps(content, 1))

ExtractMapSuggestions(content) == FindMaps(content, 1)

---------------------------------------------------------------------------
(* Notes assembly: note_generator.py, generate_learning_notes and below *)

\* An exception: its class and its message, str(e).  NoExc: none was raised.
Exc(kind, msg) == [kind |-> kind, msg |-> msg]

NoExc == Exc("", "")

\* What the language-model call does, as the environment decides: it raises
\* exc, or returns a response without choices, or returns a response whose
\* message content is content (a text, or None).
LlmRaises(e) == [kind |-> "raises", exc |-> e, content |-> None]

LlmReturns(content) == [kind |-> "returns", exc |-> NoExc, content |-> content]

LlmNoChoices == [kind |-> "no_choices", exc |-> NoExc, content |-> None]

UnboundResponse ==
    Exc("UnboundLocalError",
        "cannot access local variable 'response' where it is not associated with a value")

\* _preprocess_subtitle_content: reads the transcript, builds new values
PreprocessSubtitleContent(trans) ==
    [full_text |-> trans.full_text,
     timeline_content |->
         [i \in 1..Len(trans.segments) |->
             [timestamp |-> trans.segments[i].start,
              text |-> trans.segments[i].text,
              confidence |-> trans.segments[i].confidence]],
     original_segments |-> trans.segments]

\* _build_enhanced_prompt: the fixed instruction text around the title, the
\* full text, and the title again in the heading rule.  The fixed parts are
\* single tokens.
BuildEnhancedPrompt(processed_content, title) ==
    <<"<role and task>">> \o title \o <<"<subtitle content:>">>
        \o processed_content.full_text
        \o <<"<heading rule: # >">> \o title \o <<"<format, content and style rules>">>

\* _call_gpt_for_notes.  Both the try body and the except handler end in
\* return response.choices[0].message.content; when create() raised, response
\* was never bound and the handler's return raises UnboundLocalError in place
\* of the error caught; when choices is empty the handler's return raises
\* IndexError again.
CallGptForNotes(prompt, outcome) ==
    IF outcome.kind = "raises"
    THEN [exc |-> UnboundResponse, value |-> None]
    ELSE IF outcome.kind = "no_choices"
    THEN [exc |-> Exc("IndexError", "list index out of range"), value |-> None]
    ELSE [exc |-> NoExc, value |-> outcome.content]

\* _parse_notes_response: response.split raises AttributeError when response
\* is None, and the except clause returns the content with empty lists
ParseNotesResponse(response) ==
    IF response = None
    THEN [content |-> response, sections |-> <<>>, keywords |-> {}, maps |-> <<>>]
    ELSE [content |-> response,
          sections |-> ExtractSections(response),
          keywords |-> ExtractKeywords(response),
          maps |-> ExtractMapSuggestions(response)]

\* _generate_notes_from_subtitle: prompt, call, parse; an exception is logged
\* and raised again
GenerateNotesFromSubtitle(processed_content, title, outcome) ==
    LET response == CallGptForNotes(BuildEnhancedPrompt(processed_content, title), outcome)
    IN  IF response.exc # NoExc
        THEN [exc |-> response.exc, value |-> ParseNotesResponse(None)]
        ELSE [exc |-> NoExc, value |-> ParseNotesResponse(response.value)]

\* _convert_to_markdown: notes.get("content", "")
ConvertToMarkdown(nts) == nts.content

NoNotes ==
    [markdown |-> None,
     json |-> ParseNotesResponse(None),
     metadata |-> [title |-> None, duration |-> 0, segments_count |-> 0,
                   total_text_length |-> 0]]

\* generate_learning_notes(transcription, video_title, "markdown"): the
\* exception raised, or the notes returned
GenerateLearningNotes(trans, title, outcome) ==
    LET processed_content == PreprocessSubtitleContent(trans)
        generated == GenerateNotesFromSubtitle(processed_content, title, outcome)
    IN  IF generated.exc # NoExc
        THEN [exc |-> generated.exc, notes |-> NoNotes]
        ELSE [exc |-> NoExc,
              notes |->
                  [markdown |-> ConvertToMarkdown(generated.value),
                   json |-> generated.value,
                   metadata |->
                       [title |-> title,
                        duration |-> trans.duration,
                        segments_count |-> Len(trans.segments),
                        total_text_length |-> Len(processed_content.full_text)]]]

\* A file's place: the directory, the name without its extension, the extension.
Path(dir, stem, ext) == [dir |-> dir, stem |-> stem, ext |-> ext]

NoPath == Path("", <<>>, "")

\* re.sub(r'[<>:"/\\|?*]', '_', video_title)
UnsafeChars == {"<", ">", ":", "\"", "/", "\\", "|", "?", "*"}

SafeTitle(title) ==
    [i \in 1..Len(title) |-> IF title[i] \in UnsafeChars THEN "_" ELSE title[i]]

\* bool(x) of a text or None
Truthy(x) == x # None /\ x # <<>>

\* notes.get("markdown") or notes.get("json", {}).get("content")
\*     or notes.get("content", ""): the notes of generate_learning_notes have
\* no "content" key of their own
MarkdownContent(nts) ==
    IF Truthy(nts.markdown) THEN nts.markdown
    ELSE IF Truthy(nts.json.content) THEN nts.json.content
    ELSE <<>>

\* What a JSON file holds: the value json.dump was given.
JsonOf(value) == [json |-> value]

OSErr == Exc("OSError", "cannot open file for writing")

\* Path(name).stem: the name up to its last dot, or the whole name when that
\* dot is its first character or its last, or when it has none
PathStem(name) ==
    LET dots == {i \in 1..Len(name) : name[i] = "."}
        last == IF dots = {} THEN 0 ELSE CHOOSE d \in dots : \A e \in dots : e <= d
    IN  IF 1 < last /\ last < Len(name) THEN SubSeq(name, 1, last - 1) ELSE name

\* the name used when no title is given: "learning_notes"
LearningNotes ==
    <<"l", "e", "a", "r", "n", "i", "n", "g", "_", "n", "o", "t", "e", "s">>

\* f"{safe_title}.md"
MdName(safe_title) == safe_title \o <<".", "m", "d">>

\* A slip that opens the markdown file with mode "a": what is written is
\* added to what the file holds.
SaveNotesToFileAppending(files, nts, output_path, title, fail_at) ==
    LET safe_title == IF Truthy(title) THEN SafeTitle(title) ELSE LearningNotes
        markdown_path == Path(output_path, safe_title, "md")
        json_path == Path(output_path, PathStem(MdName(safe_title)), "json")
        old == IF markdown_path \in DOMAIN files THEN files[markdown_path] ELSE <<>>
        with_md == FsWrite(files, markdown_path, old \o MarkdownContent(nts))
    IN  IF fail_at \in {"mkdir", "md"}
        THEN [fs |-> files, exc |-> OSErr, markdown_path |-> NoPath]
        ELSE IF fail_at = "json"
        THEN [fs |-> with_md, exc |-> OSErr, markdown_path |-> NoPath]
        ELSE [fs |-> FsWrite(with_md, json_path, JsonOf(nts)), exc |-> NoExc,
              markdown_path |-> markdown_path]

\* save_notes_to_file(notes, output_path, video_title).  fail_at is the
\* environment: the file operation that raises, "none" for none.  A Path
\* (dir, stem, ext) is the file  dir / (stem + "." + ext): the markdown file
\* is output_dir / filename with filename the safe title (or learning_notes)
\* + ".md", the sidecar is output_dir / (Path(filename).stem + ".json").
SaveNotesToFile(files, nts, output_path, title, fail_at) ==
    LET safe_title == IF Truthy(title) THEN SafeTitle(title) ELSE LearningNotes
        markdown_path == Path(output_path, safe_title, "md")
        json_path == Path(output_path, PathStem(MdName(safe_title)), "json")
        with_md == FsWrite(files, markdown_path, MarkdownContent(nts))
    IN  IF fail_at \in {"mkdir", "md"}
        THEN [fs |-> files, exc |-> OSErr, markdown_path |-> NoPath]
        ELSE IF fail_at = "json"
        THEN [fs |-> with_md, exc |-> OSErr, markdown_path |-> NoPath]
        ELSE [fs |-> FsWrite(with_md, json_path, JsonOf(nts)), exc |-> NoExc,
              markdown_path |-> markdown_path]

---------------------------------------------------------------------------
(* The values the specifications draw their inputs from *)

\* The times the timecode specification draws its argument from: the whole
\* seconds around each field's carry (99:59:59 and 100:00:00 included) and
\* fractions around a millisecond's edges.
WholeSamples == {0, 1, 59, 60, 61, 3599, 3600, 3661, 359999, 360000, 445599}

FracSamples == {0, 1, 2, 3, 19, 20, 199, 1000, 1001, FracDen - 1}

TimeSamples == [whole : WholeSamples, frac : FracSamples]

Time(whole, frac) == [whole |-> whole, frac |-> frac]

\* Segments as _process_transcription_result builds them: start, end, text,
\* confidence.  The first is the segment {start: 0, end: 1, text: " Hello "}.
HelloSegment ==
    [start |-> Time(0, 0), end |-> Time(1, 0),
     text |-> <<" ", "H", "e", "l", "l", "o", " ">>, confidence |-> 0]

SegSamples ==
    { HelloSegment,
      [start |-> Time(1, 1), end |-> Time(3661, FracDen - 1),
       text |-> <<"a", " ", "b">>, confidence |-> 3],
      [start |-> Time(359999, 1001), end |-> Time(360000, 20),
       text |-> <<"\t", "c", "\n">>, confidence |-> 4],
      [start |-> Time(60, 0), end |-> Time(60, 0),
       text |-> <<" ">>, confidence |-> 4] }

RECURSIVE SeqsUpTo(_, _)
SeqsUpTo(S, n) ==
    IF n = 0 THEN {<<>>}
    ELSE LET shorter == SeqsUpTo(S, n - 1)
         IN  shorter \cup {Append(q, x) : q \in shorter, x \in S}

Transcripts ==
    { [full_text |-> ft.text, segments |-> segs, language |-> "zh",
       duration |-> ft.duration] :
        segs \in SeqsUpTo(SegSamples, MaxSegs),
        ft \in { [text |-> <<>>, duration |-> 0],
                 [text |-> <<"a", " ", "b", "c">>, duration |-> 7] } }

NoTranscript ==
    [full_text |-> <<>>, segments |-> <<>>, language |-> "zh", duration |-> 0]

FormatSamples == {"srt", "vtt", "txt", "bogus", "SRT", ""}

OldContent == <<"o", "l", "d">>

NoCall ==
    [op |-> "none", format_type |-> "", output_path |-> "", content |-> None,
     exc |-> "", fs_before |-> EmptyFs]

---------------------------------------------------------------------------
(* The timecode specification: one time, formatted both ways *)

TimeIdle == seconds = Time(0, 0) /\ srt_time = None /\ vtt_time = None

FmtIdle ==
    /\ transcription = NoTranscript
    /\ fs = EmptyFs
    /\ last_call = NoCall
    /\ stats = NoStats

TextIdle == note_text = <<>> /\ sections = None /\ keywords = None /\ maps = None

NoArgs ==
    [video_path |-> [is_url |-> FALSE, stem |-> <<>>], video_title |-> None,
     save_subtitles |-> FALSE]

NoLocals == [extracted_title |-> None, markdown_path |-> NoPath]

NoResult ==
    [success |-> FALSE, error |-> "", markdown_path |-> NoPath,
     subtitles_dir |-> "None",
     statistics |-> [duration |-> 0, segments_count |-> 0, total_text_length |-> 0,
                     keywords_count |-> 0, maps_count |-> 0]]

NoHist ==
    [started |-> <<>>, completed |-> <<>>, failed_stage |-> "",
     llm |-> LlmReturns(None), transcript |-> NoTranscript]

PipeIdle ==
    /\ pc = "idle"
    /\ args = NoArgs
    /\ video_title = None
    /\ locals = NoLocals
    /\ notes = NoNotes
    /\ exc = NoExc
    /\ result = NoResult
    /\ hist = NoHist

InitTime ==
    /\ seconds \in TimeSamples
    /\ srt_time = None
    /\ vtt_time = None
    /\ FmtIdle
    /\ TextIdle
    /\ PipeIdle

format_time ==
    /\ srt_time = None
    /\ srt_time' = FormatTime(seconds)
    /\ UNCHANGED <<seconds, vtt_time, fmtVars, textVars, pipeVars>>

format_time_vtt ==
    /\ vtt_time = None
    /\ vtt_time' = FormatTimeVtt(seconds)
    /\ UNCHANGED <<seconds, srt_time, fmtVars, textVars, pipeVars>>

NextTime == format_time \/ format_time_vtt

SpecTime == InitTime /\ [][NextTime]_vars

---------------------------------------------------------------------------
(* The formatter specification: one transcript, saved in any format any    *)
(* number of times to one path that may or may not exist, and measured     *)

SubtitlePath == Path("output/subtitles", <<"subtitle">>, "out")

InitFmt ==
    /\ TimeIdle
    /\ TextIdle
    /\ PipeIdle
    /\ transcription \in Transcripts
    /\ fs \in {EmptyFs, FsWrite(EmptyFs, SubtitlePath, OldContent)}
    /\ last_call = NoCall
    /\ stats = NoStats

save_subtitle_file ==
    \E format_type \in FormatSamples, io_ok \in BOOLEAN :
        LET r == SaveSubtitleFile(fs, transcription, SubtitlePath, format_type, io_ok)
        IN  /\ fs' = r.fs
            /\ last_call' =
                   [op |-> "save_subtitle_file", format_type |-> format_type,
                    output_path |-> SubtitlePath, content |-> r.content,
                    exc |-> r.exc, fs_before |-> fs]
            /\ transcription' = TranscriptAfter("save_subtitle_file", transcription)
            /\ UNCHANGED <<stats, timeVars, textVars, pipeVars>>

get_transcription_stats ==
    /\ stats' = GetTranscriptionStats(transcription)
    /\ transcription' = TranscriptAfter("get_transcription_stats", transcription)
    /\ UNCHANGED <<fs, last_call, timeVars, textVars, pipeVars>>

NextFmt == save_subtitle_file \/ get_transcription_stats

SpecFmt == InitFmt /\ [][NextFmt]_vars

---------------------------------------------------------------------------
(* The extractor specification: one note text, scanned for its sections *)

TextChars == {"#", " ", "\n", "a"}

InitText ==
    /\ TimeIdle
    /\ FmtIdle
    /\ PipeIdle
    /\ note_text \in SeqsUpTo(TextChars, MaxText)
    /\ sections = None
    /\ keywords = None
    /\ maps = None

extract_sections ==
    /\ sections' = ExtractSections(note_text)
    /\ UNCHANGED <<note_text, keywords, maps, timeVars, fmtVars, pipeVars>>

NextText == extract_sections

SpecText == InitText /\ [][NextText]_vars

---------------------------------------------------------------------------
(* The keyword specification: one note text, scanned for its keywords.  The *)
(* text is put together from up to MaxKwTokens pieces.                      *)

\* sum(pieces, [])
RECURSIVE Flatten(_)
Flatten(pieces) ==
    IF pieces = <<>> THEN <<>> ELSE Head(pieces) \o Flatten(Tail(pieces))

KwTokens ==
    { <<"*", "*", "x", "*", "*">>, <<"*", "*", "y", "*", "*">>,
      <<"*", "*">>, <<"*">>, <<" ">>, <<"\n">> }

InitKw ==
    /\ TimeIdle
    /\ FmtIdle
    /\ PipeIdle
    /\ note_text \in {Flatten(pieces) : pieces \in SeqsUpTo(KwTokens, MaxKwTokens)}
    /\ sections = None
    /\ keywords = None
    /\ maps = None

extract_keywords ==
    /\ keywords' \in KeywordsReturned(note_text)
    /\ UNCHANGED <<note_text, sections, maps, timeVars, fmtVars, pipeVars>>

NextKw == extract_keywords

SpecKw == InitKw /\ [][NextKw]_vars

---------------------------------------------------------------------------
(* The map specification: one note text, scanned for its map suggestions.  *)
(* The text is put together from up to MaxMapTokens pieces.                *)

\* '[T] - "q"'
MapTq == <<"[", "T", "]", " ", "-", " ", "\"", "q", "\"">>

MapTokens == {MapTq, <<"[">>, MapMid, <<"\"">>, <<"T">>, <<"\n">>}

InitMap ==
    /\ TimeIdle
    /\ FmtIdle
    /\ PipeIdle
    /\ note_text \in {Flatten(pieces) : pieces \in SeqsUpTo(MapTokens, MaxMapTokens)}
    /\ sections = None
    /\ keywords = None
    /\ maps = None

extract_map_suggestions ==
    /\ maps' = ExtractMapSuggestions(note_text)
    /\ UNCHANGED <<note_text, sections, keywords, timeVars, fmtVars, pipeVars>>

NextMap == extract_map_suggestions

SpecMap == InitMap /\ [][NextMap]_vars

---------------------------------------------------------------------------
(* The persistence specification: one notes value and one title, saved any *)
(* number of times into an output directory that may hold files already.   *)
(* The arguments are kept in notes and video_title, the path returned in   *)
(* locals.markdown_path.                                                   *)

OutputDir == "output"

SaveTitleChars == UnsafeChars \cup {"a", ".", "_"}

SaveTitleSamples == SeqsUpTo(SaveTitleChars, MaxTitle) \cup {None}

\* '# I\n**R** f\n[M] - "r"': a heading, a keyword, a map suggestion
ExampleResponse ==
    <<"#", " ", "I", "\n", "*", "*", "R", "*", "*", " ", "f", "\n",
      "[", "M", "]", " ", "-", " ", "\"", "r", "\"">>

\* notes as generate_learning_notes returns them for the title
NotesSamples(title) ==
    { GenerateLearningNotes(
          [NoTranscript EXCEPT !.segments = <<HelloSegment>>, !.duration = 7],
          title, LlmReturns(content)).notes :
        content \in {None, <<>>, ExampleResponse} }

InitSave ==
    /\ TimeIdle
    /\ TextIdle
    /\ transcription = NoTranscript
    /\ stats = NoStats
    /\ last_call = NoCall
    /\ fs \in { EmptyFs,
                 FsWrite(EmptyFs, Path(OutputDir, <<"a">>, "md"), OldContent),
                 FsWrite(EmptyFs, Path(OutputDir, <<"a">>, "txt"), OldContent) }
    /\ pc = "idle"
    /\ args = NoArgs
    /\ video_title \in SaveTitleSamples
    /\ notes \in NotesSamples(video_title)
    /\ locals = NoLocals
    /\ exc = NoExc
    /\ result = NoResult
    /\ hist = NoHist

save_notes_to_file ==
    \E fail_at \in {"none", "mkdir", "md", "json"} :
        LET r == SaveNotesToFile(fs, notes, OutputDir, video_title, fail_at)
        IN  /\ fs' = r.fs
            /\ last_call' =
                   [op |-> "save_notes_to_file", format_type |-> "",
                    output_path |-> OutputDir, content |-> None,
                    exc |-> r.exc.kind, fs_before |-> fs]
            /\ locals' = [locals EXCEPT !.markdown_path = r.markdown_path]
            /\ UNCHANGED <<transcription, stats, pc, args, video_title, notes, exc,
                           result, hist, timeVars, textVars>>

NextSave == save_notes_to_file

SpecSave == InitSave /\ [][NextSave]_vars

---------------------------------------------------------------------------
(* The pipeline: main.py, process_video_to_notes.  One run; pc names the   *)
(* stage the run stands before.  Every call into a collaborator (the file  *)
(* system, the downloader, the speech-to-text model, the language model)   *)
(* succeeds or raises as the environment decides.                          *)

\* settings.py, DEFAULT_VIDEO_TITLE: the six characters of the default title
DEFAULT_VIDEO_TITLE == <<"d", "e", "f", "a", "u", "l">>

SubtitlesDir == "output/subtitles"

VideoPathSamples ==
    { [is_url |-> FALSE, stem |-> <<"v">>],
      [is_url |-> TRUE, stem |-> <<"B", "V", "1">>] }

\* The last is the title whose sidecar is the file the transcript is dumped to.
TitleSamples ==
    {None, <<>>, DEFAULT_VIDEO_TITLE, <<"M", ":", "y">>, <<"transcription_data">>}

\* info.get('title', 'video') of a download
UrlTitleSamples == {<<"T", "/", "1">>}

\* The transcripts the speech-to-text model returns in a run.
PipelineTranscripts ==
    {t \in Transcripts :
        \/ t.segments = <<>>
        \/ /\ t.segments = <<HelloSegment>>
           /\ t.duration = 7}

LlmErrors ==
    { Exc("RateLimitError", "rate limit exceeded"),
      Exc("AuthenticationError", "invalid api key"),
      Exc("APITimeoutError", "request timed out") }

LlmOutcomes ==
    {LlmRaises(e) : e \in LlmErrors}
        \cup {LlmNoChoices}
        \cup {LlmReturns(c) : c \in {None, <<>>, ExampleResponse}}

AcquireErrors ==
    { Exc("FileNotFoundError", "video file does not exist"),
      Exc("DownloadError", "unable to download"),
      Exc("Exception", "downloaded audio file not found") }

TranscribeErrors == {Exc("RuntimeError", "transcription failed")}

Init ==
    /\ TimeIdle
    /\ TextIdle
    /\ pc = "setup"
    /\ args \in [video_path : VideoPathSamples, video_title : TitleSamples,
                 save_subtitles : BOOLEAN]
    /\ video_title = args.video_title
    /\ locals = NoLocals
    /\ notes = NoNotes
    /\ exc = NoExc
    /\ result = NoResult
    /\ hist = NoHist
    /\ transcription = NoTranscript
    /\ fs = EmptyFs
    /\ last_call = NoCall
    /\ stats = NoStats

\* A slip that catches the file system's errors only.
CaughtOnlyOSError(e) == e.kind \in {"OSError", "PermissionError", "FileNotFoundError"}

\* The classes the clause  except Exception  catches: every error the stages
\* raise is an Exception.
CaughtByExcept(e) == TRUE

\* A slip that logs the error and goes on with the next statement.
AfterRaiseGoOn(next) == next

\* Where a run goes when a stage raises: to the except clause, past every
\* later statement of the try body.
AfterRaise(next) == "raised"

\* stage starts and returns
Completed(stage) ==
    [hist EXCEPT !.started = Append(@, stage), !.completed = Append(@, stage)]

\* stage starts and raises
Failed(stage) ==
    [hist EXCEPT !.started = Append(@, stage),
                 !.failed_stage = IF @ = "" THEN stage ELSE @]

\* lines 59-78: output_path.mkdir, the default title
setup_output_dir ==
    /\ pc = "setup"
    /\ \E ok \in BOOLEAN :
          IF ok
          THEN /\ video_title' = IF args.video_title = None
                                 THEN args.video_path.stem
                                 ELSE args.video_title
               /\ pc' = "acquire"
               /\ hist' = Completed("setup")
               /\ exc' = exc
          ELSE /\ pc' = AfterRaise("acquire")
               /\ exc' = Exc("PermissionError", "cannot create output directory")
               /\ hist' = Failed("setup")
               /\ video_title' = video_title
    /\ UNCHANGED <<args, locals, notes, result, timeVars, fmtVars, textVars>>

\* lines 80-102: download_audio_from_url or extract_audio_from_video, the
\* title, get_audio_info (which catches its own errors)
acquire_audio ==
    /\ pc = "acquire"
    /\ \/ \E extracted_title \in
                 (IF args.video_path.is_url THEN UrlTitleSamples
                  ELSE {args.video_path.stem}) :
             /\ locals' = [locals EXCEPT !.extracted_title = extracted_title]
             /\ video_title' = IF ~Truthy(video_title) \/ video_title = DEFAULT_VIDEO_TITLE
                                 THEN extracted_title
                                 ELSE video_title
             /\ pc' = "transcribe"
             /\ hist' = Completed("acquire")
             /\ exc' = exc
       \/ \E e \in AcquireErrors :
             /\ pc' = AfterRaise("transcribe")
             /\ exc' = e
             /\ hist' = Failed("acquire")
             /\ UNCHANGED <<locals, video_title>>
    /\ UNCHANGED <<args, notes, result, timeVars, fmtVars, textVars>>

\* lines 104-114: SubtitleGenerator(model_size), transcribe_audio,
\* get_transcription_stats
transcribe_audio ==
    /\ pc = "transcribe"
    /\ \/ \E t \in PipelineTranscripts :
             /\ transcription' = TranscriptAfter("get_transcription_stats", t)
             /\ stats' = GetTranscriptionStats(t)
             /\ pc' = IF args.save_subtitles THEN "subtitles" ELSE "generate"
             /\ hist' = [Completed("transcribe") EXCEPT !.transcript = t]
             /\ exc' = exc
       \/ \E e \in TranscribeErrors :
             /\ pc' = AfterRaise(IF args.save_subtitles THEN "subtitles" ELSE "generate")
             /\ exc' = e
             /\ hist' = Failed("transcribe")
             /\ UNCHANGED <<transcription, stats>>
    /\ UNCHANGED <<args, video_title, locals, notes, result, fs, last_call,
                   timeVars, textVars>>

SubtitleFile(format_type) == Path(SubtitlesDir, <<"subtitle">>, format_type)

\* A slip that logs the error of a file that cannot be written and goes on
\* with the next format.
RECURSIVE SaveSubtitlesBestEffort(_, _, _, _)
SaveSubtitlesBestEffort(files, trans, formats, writable) ==
    IF formats = <<>> THEN [fs |-> files, exc |-> ""]
    ELSE LET r == SaveSubtitleFile(files, trans, SubtitleFile(Head(formats)),
                                   Head(formats), writable > 0)
         IN  SaveSubtitlesBestEffort(r.fs, trans, Tail(formats), writable - 1)

\* The three calls of lines 122-124 in turn; writable is how many of the
\* files can be opened, and the first that cannot ends the stage.
RECURSIVE SaveSubtitles(_, _, _, _)
SaveSubtitles(files, trans, formats, writable) ==
    IF formats = <<>> THEN [fs |-> files, exc |-> ""]
    ELSE LET r == SaveSubtitleFile(files, trans, SubtitleFile(Head(formats)),
                                   Head(formats), writable > 0)
         IN  IF r.exc # "" THEN [fs |-> r.fs, exc |-> r.exc]
             ELSE SaveSubtitles(r.fs, trans, Tail(formats), writable - 1)

\* lines 116-124: subtitles_dir.mkdir, save_subtitle_file three times
save_subtitles ==
    /\ pc = "subtitles"
    /\ \E mkdir_ok \in BOOLEAN, writable \in 0..3 :
          LET r == IF mkdir_ok
                   THEN SaveSubtitles(fs, transcription, <<"srt", "vtt", "txt">>, writable)
                   ELSE [fs |-> fs, exc |-> "OSError"]
          IN  /\ fs' = r.fs
              /\ transcription' =
                     IF mkdir_ok
                     THEN TranscriptAfter("save_subtitle_file", transcription)
                     ELSE transcription
              /\ IF r.exc = ""
                 THEN /\ pc' = "generate"
                      /\ hist' = Completed("subtitles")
                      /\ exc' = exc
                 ELSE /\ pc' = AfterRaise("generate")
                      /\ exc' = OSErr
                      /\ hist' = Failed("subtitles")
    /\ UNCHANGED <<args, video_title, locals, notes, result, last_call, stats,
                   timeVars, textVars>>

\* lines 126-136: NoteGenerator(api_key), generate_learning_notes
generate_notes ==
    /\ pc = "generate"
    /\ \E outcome \in LlmOutcomes :
          LET r == GenerateLearningNotes(transcription, video_title, outcome)
          IN  IF r.exc = NoExc
              THEN /\ notes' = r.notes
                   /\ pc' = "persist"
                   /\ hist' = [Completed("generate") EXCEPT !.llm = outcome]
                   /\ exc' = exc
              ELSE /\ pc' = AfterRaise("persist")
                   /\ exc' = r.exc
                   /\ hist' = [Failed("generate") EXCEPT !.llm = outcome]
                   /\ notes' = notes
    /\ transcription' = TranscriptAfter("generate_learning_notes", transcription)
    /\ UNCHANGED <<args, video_title, locals, result, fs, last_call, stats,
                   timeVars, textVars>>

\* lines 138-144: save_notes_to_file
persist_notes ==
    /\ pc = "persist"
    /\ \E fail_at \in {"none", "mkdir", "md", "json"} :
          LET r == SaveNotesToFile(fs, notes, OutputDir, video_title, fail_at)
          IN  /\ fs' = r.fs
              /\ IF r.exc = NoExc
                 THEN /\ locals' = [locals EXCEPT !.markdown_path = r.markdown_path]
                      /\ pc' = "dump"
                      /\ hist' = Completed("persist")
                      /\ exc' = exc
                 ELSE /\ pc' = AfterRaise("dump")
                      /\ exc' = r.exc
                      /\ hist' = Failed("persist")
                      /\ locals' = locals
    /\ UNCHANGED <<args, video_title, notes, result, transcription, last_call,
                   stats, timeVars, textVars>>

TranscriptionDataPath == Path(OutputDir, <<"transcription_data">>, "json")

\* lines 146-169: json.dump(transcription) and the dict returned
dump_and_return ==
    /\ pc = "dump"
    /\ \E ok \in BOOLEAN :
          IF ok
          THEN /\ fs' = FsWrite(fs, TranscriptionDataPath, JsonOf(transcription))
               /\ transcription' = TranscriptAfter("json.dump", transcription)
               /\ result' =
                      [success |-> TRUE,
                       error |-> "",
                       markdown_path |-> locals.markdown_path,
                       subtitles_dir |->
                           IF args.save_subtitles THEN SubtitlesDir ELSE "None",
                       statistics |->
                           [duration |-> transcription.duration,
                            segments_count |-> Len(transcription.segments),
                            total_text_length |-> Len(transcription.full_text),
                            keywords_count |-> Cardinality(notes.json.keywords),
                            maps_count |-> Len(notes.json.maps)]]
               /\ pc' = "returned"
               /\ hist' = Completed("dump")
               /\ exc' = exc
          ELSE /\ pc' = AfterRaise("returned")
               /\ exc' = OSErr
               /\ hist' = Failed("dump")
               /\ UNCHANGED <<fs, result, transcription>>
    /\ UNCHANGED <<args, video_title, locals, notes, last_call, stats, timeVars,
                   textVars>>

\* lines 171-176: except Exception as e: the failure dict; an exception the
\* clause does not catch leaves the function
except_clause ==
    /\ pc = "raised"
    /\ IF CaughtByExcept(exc)
       THEN /\ result' = [NoResult EXCEPT !.error = exc.msg]
            /\ pc' = "returned"
       ELSE /\ pc' = "escaped"
            /\ result' = result
    /\ UNCHANGED <<args, video_title, locals, notes, exc, hist, timeVars, fmtVars,
                   textVars>>

Next ==
    \/ setup_output_dir
    \/ acquire_audio
    \/ transcribe_audio
    \/ save_subtitles
    \/ generate_notes
    \/ persist_notes
    \/ dump_and_return
    \/ except_clause

Spec == Init /\ [][Next]_vars

---------------------------------------------------------------------------
(* Reading a timecode back, for the statements about it *)

RECURSIVE StrToInt(_)
StrToInt(s) ==
    IF s = <<>> THEN 0
    ELSE StrToInt(SubSeq(s, 1, Len(s) - 1)) * 10 + DigitValue(s[Len(s)])

AllDigits(s) == \A i \in 1..Len(s) : IsDigit(s[i])

\* s is H..H:MM:SS<sep>mmm for the time t: every field a run of digits of the
\* right width that reads back as the field of t.
IsTimecodeOf(s, sep, t) ==
    LET n == Len(s)
        hh == SubSeq(s, 1, n - 10)
        mm == SubSeq(s, n - 8, n - 7)
        ss == SubSeq(s, n - 5, n - 4)
        ms == SubSeq(s, n - 2, n)
    IN  /\ n >= 12
        /\ s[n - 9] = ":" /\ s[n - 6] = ":" /\ s[n - 3] = sep
        /\ AllDigits(hh) /\ AllDigits(mm) /\ AllDigits(ss) /\ AllDigits(ms)
        \* hours: at least 2 digits, more only when the value needs them
        /\ Len(hh) > 2 => hh[1] # "0"
        /\ StrToInt(mm) \in 0..59
        /\ StrToInt(ss) \in 0..59
        /\ StrToInt(ms) \in 0..999
        /\ StrToInt(hh) * 3600 + StrToInt(mm) * 60 + StrToInt(ss) = t.whole
        \* truncated, not rounded
        /\ StrToInt(ms) * FracDen <= t.frac * 1000
        /\ t.frac * 1000 < (StrToInt(ms) + 1) * FracDen

\* C8: for every time >= 0 the SRT and the VTT timecode are equal character
\* for character except for the separator before the milliseconds (',' in
\* SRT, '.' in VTT); both have hours zero-padded to at least 2 digits and not
\* capped at 99, minutes and seconds in 00..59 and milliseconds in 000..999
\* truncated from the fractional part.
C8_TimecodesDifferOnlyInSeparator ==
    (srt_time # None /\ vtt_time # None) =>
        /\ Len(srt_time) = Len(vtt_time)
        /\ \A i \in 1..Len(srt_time) :
              IF i = Len(srt_time) - 3
              THEN srt_time[i] = "," /\ vtt_time[i] = "."
              ELSE srt_time[i] = vtt_time[i]
        /\ IsTimecodeOf(srt_time, ",", seconds)
        /\ IsTimecodeOf(vtt_time, ".", seconds)

\* Both timecodes of a time of 100 hours or more, with a fraction that is not a
\* whole number of milliseconds, have been produced.
C8_Witness ==
    /\ srt_time # None /\ vtt_time # None
    /\ seconds.whole >= 360000
    /\ (seconds.frac * 1000) % FracDen # 0
    /\ Len(srt_time) = 13

---------------------------------------------------------------------------
(* Reading a formatted transcript back, for the statements about it *)

\* t is s without its leading and trailing whitespace
IsTrimOf(t, s) ==
    /\ t # <<>> => (~IsSpace(t[1]) /\ ~IsSpace(t[Len(t)]))
    /\ \E i \in 0..Len(s) :
          /\ i + Len(t) <= Len(s)
          /\ SubSeq(s, i + 1, i + Len(t)) = t
          /\ \A j \in 1..i : IsSpace(s[j])
          /\ \A j \in (i + Len(t) + 1)..Len(s) : IsSpace(s[j])

\* line is "<timecode of start> --> <timecode of end>", the timecodes SRT's
IsSrtTimeLine(line, segment) ==
    \E i \in 1..Len(line) :
        /\ i + Len(Arrow) < Len(line)
        /\ IsTimecodeOf(SubSeq(line, 1, i), ",", segment.start)
        /\ SubSeq(line, i + 1, i + Len(Arrow)) = Arrow
        /\ IsTimecodeOf(SubSeq(line, i + Len(Arrow) + 1, Len(line)), ",", segment.end)

\* line is the decimal numeral of k >= 1
IsNumeralOf(line, k) ==
    /\ line # <<>>
    /\ AllDigits(line)
    /\ line[1] # "0"
    /\ StrToInt(line) = k

SavedAs(format_type) ==
    /\ last_call.op = "save_subtitle_file"
    /\ last_call.format_type = format_type

HelloSrt ==
    <<"1", "\n",
      "0", "0", ":", "0", "0", ":", "0", "0", ",", "0", "0", "0",
      " ", "-", "-", ">", " ",
      "0", "0", ":", "0", "0", ":", "0", "1", ",", "0", "0", "0", "\n",
      "H", "e", "l", "l", "o", "\n">>

\* C5: for every format_type outside {srt, vtt, txt} and every transcription,
\* save_subtitle_file fails with a format error (ValueError) and leaves the
\* files as they were: the target path is neither created nor overwritten.
C5_UnsupportedFormatFailsAndWritesNothing ==
    (/\ last_call.op = "save_subtitle_file"
     /\ last_call.format_type \notin {"srt", "vtt", "txt"}) =>
        /\ last_call.exc = "ValueError"
        /\ fs = last_call.fs_before
        /\ (last_call.output_path \in DOMAIN fs) =
               (last_call.output_path \in DOMAIN last_call.fs_before)

\* An unsupported format was refused while the target file existed, with the
\* content an earlier successful save had given it.
C5_Witness ==
    /\ last_call.op = "save_subtitle_file"
    /\ last_call.format_type = "bogus"
    /\ last_call.exc = "ValueError"
    /\ SubtitlePath \in DOMAIN fs
    /\ fs[SubtitlePath] # OldContent
    /\ transcription.segments # <<>>

\* C6: for every segment list of length n, SRT formatting emits exactly n
\* blocks in segment order, the k-th carrying the index k, then
\* 'start --> end' in SRT timecodes, then the trimmed text; consecutive blocks
\* are separated by exactly one blank line; the index starts again at 1 on
\* every call; and the single segment {start:0, end:1, text:' Hello '} gives
\* '1\n00:00:00,000 --> 00:00:01,000\nHello\n'.
C6_SrtBlocks ==
    SavedAs("srt") =>
        LET out == last_call.content
            segs == transcription.segments
            n == Len(segs)
            lines == Split(out, "\n")
        IN  /\ out # None
            /\ n = 0 => out = <<>>
            /\ n > 0 =>
                  /\ Len(lines) = 4 * n
                  /\ \A k \in 1..n :
                        /\ IsNumeralOf(lines[4 * k - 3], k)
                        /\ IsSrtTimeLine(lines[4 * k - 2], segs[k])
                        /\ IsTrimOf(lines[4 * k - 1], segs[k].text)
                        /\ lines[4 * k] = <<>>
            /\ segs = <<HelloSegment>> => out = HelloSrt

\* A list of two or more segments was saved as SRT over a file that an earlier
\* call had already written as SRT.
C6_Witness ==
    /\ SavedAs("srt")
    /\ last_call.exc = ""
    /\ Len(transcription.segments) >= 2
    /\ SubtitlePath \in DOMAIN last_call.fs_before
    /\ last_call.fs_before[SubtitlePath] = last_call.content
    /\ fs[SubtitlePath] = last_call.content

\* C7: formatting the empty segment list raises no error for any of srt, vtt,
\* txt: srt and txt give the empty string and vtt gives only the WEBVTT header
\* line.
C7_EmptyListFormats ==
    (/\ last_call.op = "save_subtitle_file"
     /\ last_call.format_type \in {"srt", "vtt", "txt"}
     /\ transcription.segments = <<>>) =>
        /\ last_call.exc # "ValueError"
        /\ last_call.format_type = "srt" => last_call.content = <<>>
        /\ last_call.format_type = "txt" => last_call.content = <<>>
        /\ last_call.format_type = "vtt" =>
               last_call.content = <<"W", "E", "B", "V", "T", "T", "\n">>
        /\ last_call.exc = "" => fs[last_call.output_path] = last_call.content

\* The empty segment list was saved as VTT.
C7_Witness ==
    /\ SavedAs("vtt")
    /\ transcription.segments = <<>>
    /\ last_call.exc = ""
    /\ Len(fs[SubtitlePath]) = 7

\* The confidences of the segments added up value by value: each value times
\* the number of segments that carry it.
RECURSIVE WeightedCount(_, _)
WeightedCount(segs, values) ==
    IF values = {} THEN 0
    ELSE LET v == CHOOSE x \in values : TRUE
         IN  v * Cardinality({i \in 1..Len(segs) : segs[i].confidence = v})
                 + WeightedCount(segs, values \ {v})

\* C9: get_transcription_stats returns without error; total_segments is the
\* number of segments, total_text_length the length of full_text, duration the
\* transcript's duration, and average_confidence the sum of the segment
\* confidences divided by the segment count, or 0 when there is no segment.
C9_Stats ==
    stats.state # "unset" =>
        LET segs == transcription.segments
        IN  /\ stats.state = "returned"
            /\ stats.total_segments = Len(segs)
            /\ stats.total_text_length = Len(transcription.full_text)
            /\ stats.duration = transcription.duration
            /\ Len(segs) = 0 => stats.average_confidence = [num |-> 0, den |-> 1]
            /\ Len(segs) > 0 =>
                  /\ stats.average_confidence.den = Len(segs)
                  /\ stats.average_confidence.num =
                         WeightedCount(segs, {segs[i].confidence : i \in 1..Len(segs)})

\* The statistics of a transcript without segments were computed.
C9_Witness ==
    /\ stats.state = "returned"
    /\ transcription.segments = <<>>
    /\ transcription.full_text # <<>>
    /\ stats.total_text_length = 4

---------------------------------------------------------------------------
(* Reading a note text's lines, for the statements about the sections *)

\* where the lines of s begin: after position 0 and after every newline
LineStarts(s) == {0} \cup {i \in 1..Len(s) : s[i] = "\n"}

\* the line of s that begins after position b, without its newline
LineAfter(s, b) ==
    LET stop == CHOOSE e \in (b + 1)..(Len(s) + 1) :
                    /\ e = Len(s) + 1 \/ s[e] = "\n"
                    /\ \A j \in (b + 1)..(e - 1) : s[j] # "\n"
    IN  SubSeq(s, b + 1, stop - 1)

\* the first character of the line that is not whitespace is '#'
IsHeaderLine(line) ==
    \E i \in 1..Len(line) : line[i] = "#" /\ \A j \in 1..(i - 1) : IsSpace(line[j])

HeaderStarts(s) == {b \in LineStarts(s) : IsHeaderLine(LineAfter(s, b))}

\* the k-th smallest member of a set of numbers
Kth(S, k) == CHOOSE x \in S : Cardinality({y \in S : y < x}) = k - 1

\* C10 as claimed: the sections are the header lines in document order, each
\* verbatim, leading and trailing whitespace of the line included.
C10_SectionsVerbatim ==
    sections # None =>
        /\ Len(sections) = Cardinality(HeaderStarts(note_text))
        /\ \A k \in 1..Len(sections) :
              sections[k] = LineAfter(note_text, Kth(HeaderStarts(note_text), k))

\* C10, amended: the sections are exactly the lines whose first non-whitespace
\* character is '#', in document order, each captured with its '#' markers and
\* without the leading and trailing whitespace of the line.
C10_SectionsTrimmed ==
    sections # None =>
        /\ Len(sections) = Cardinality(HeaderStarts(note_text))
        /\ \A k \in 1..Len(sections) :
              IsTrimOf(sections[k], LineAfter(note_text, Kth(HeaderStarts(note_text), k)))

\* Two header lines were extracted from a text, the first of them indented.
C10_Witness ==
    /\ sections # None
    /\ Len(sections) = 2
    /\ note_text # <<>>
    /\ note_text[1] = " "
    /\ sections[1] = <<"#">>

---------------------------------------------------------------------------
(* Statements about a run of the pipeline *)

IsPrefix(a, b) == Len(a) <= Len(b) /\ SubSeq(b, 1, Len(a)) = a

FourStages == <<"acquire", "transcribe", "generate", "persist">>

IsOneOfFour(stage) == stage \in Range(FourStages)

\* a notes file: the markdown file or its JSON sidecar
IsNotesFile(path) ==
    path.dir = OutputDir /\ path.ext \in {"md", "json"} /\ path # TranscriptionDataPath

\* C1: whichever stage raises (output-directory setup, audio acquisition,
\* transcription, subtitle writing, note generation, note persistence,
\* transcript JSON writing), no exception leaves process_video_to_notes: it
\* returns success=false with the error's message, and it never returns
\* success=true after a stage has failed.
C1_StageFailureIsReturned ==
    /\ pc # "escaped"
    /\ hist.failed_stage # "" =>
          /\ pc \in {"raised", "returned"}
          /\ exc # NoExc
          /\ ~result.success
          /\ pc = "returned" => (result.error = exc.msg /\ result.error # "")
    /\ (pc = "returned" /\ result.success) => hist.failed_stage = ""

\* The last stage, writing transcription_data.json, raised after every stage
\* before it had completed, and the run returned the failure.
C1_Witness ==
    /\ pc = "returned"
    /\ hist.failed_stage = "dump"
    /\ ~result.success
    /\ result.error = OSErr.msg
    /\ args.save_subtitles
    /\ hist.completed = <<"setup", "acquire", "transcribe", "subtitles", "generate", "persist">>

\* C2: in a run the stages started, among audio acquisition, transcription,
\* note generation and note persistence, are a prefix of that list: each is
\* started at most once, a stage is started only after the one before it has
\* completed, and once a stage fails no later stage is started.
C2_StagesRunOnceInOrder ==
    /\ IsPrefix(SelectSeq(hist.started, IsOneOfFour), FourStages)
    /\ IsPrefix(SelectSeq(hist.completed, IsOneOfFour), SelectSeq(hist.started, IsOneOfFour))
    /\ IF hist.failed_stage = ""
       THEN hist.started = hist.completed
       ELSE hist.started = Append(hist.completed, hist.failed_stage)

\* The language-model call raised: note generation was started third, once,
\* and nothing was started after it.
C2_Witness ==
    /\ pc = "returned"
    /\ hist.failed_stage = "generate"
    /\ hist.llm.kind = "raises"
    /\ SelectSeq(hist.started, IsOneOfFour) = <<"acquire", "transcribe", "generate">>
    /\ hist.started[Len(hist.started)] = "generate"

\* C3: when the language-model call raises an error E (rate limit, auth
\* failure, timeout), generate_learning_notes fails with that same error E,
\* unchanged in kind and message, and the error message process_video_to_notes
\* reports is the message of E.
C3_LlmErrorSurfacedUnchanged ==
    (/\ "generate" \in Range(hist.started)
     /\ hist.llm.kind = "raises") =>
        /\ exc = hist.llm.exc
        /\ pc = "returned" => result.error = hist.llm.exc.msg

\* C4: when the language-model call returns with an absent (None) response
\* text, the run is a generation failure: generate_learning_notes returns no
\* notes, no notes markdown or JSON sidecar is written, and
\* process_video_to_notes returns success=false.
C4_NullResponseIsGenerationFailure ==
    (/\ "generate" \in Range(hist.started)
     /\ hist.llm = LlmReturns(None)) =>
        /\ "generate" \notin Range(hist.completed)
        /\ \A path \in DOMAIN fs : ~IsNotesFile(path)
        /\ pc = "returned" => ~result.success

---------------------------------------------------------------------------
(* Reading a note text's '**' pairs, for the statements about the keywords *)

\* the nearest "**" that can close a pair opened at o; when one_line, only a
\* "**" before the end of o's line counts; 0 when there is none
ClosingStars(s, o, one_line) ==
    LET cs == {c \in (o + 2)..Len(s) :
                  StarsAt(s, c) /\ (one_line => NoNewline(s, o + 2, c - 1))}
    IN  IF cs = {} THEN 0 ELSE CHOOSE c \in cs : \A e \in cs : c <= e

\* the first "**" at or after from that has a closing "**"; 0 when none
OpeningStars(s, from, one_line) ==
    LET os == {o \in from..Len(s) :
                  StarsAt(s, o) /\ ClosingStars(s, o, one_line) # 0}
    IN  IF os = {} THEN 0 ELSE CHOOSE o \in os : \A e \in os : o <= e

\* the substrings between the pairs of "**", the pairs taken left to right,
\* each pair beginning after the one before it has ended
RECURSIVE Delimited(_, _, _)
Delimited(s, from, one_line) ==
    LET o == OpeningStars(s, from, one_line)
        c == ClosingStars(s, o, one_line)
    IN  IF o = 0 THEN {}
        ELSE {SubSeq(s, o + 2, c - 1)} \cup Delimited(s, c + 2, one_line)

\* part stands in s from position i on
OccursAt(s, i, part) ==
    i + Len(part) - 1 <= Len(s) /\ SubSeq(s, i, i + Len(part) - 1) = part

NoDuplicates(list) == Cardinality(Range(list)) = Len(list)

\* '**x** **x** **y**'
RepeatedKeywordText ==
    <<"*", "*", "x", "*", "*", " ", "*", "*", "x", "*", "*", " ",
      "*", "*", "y", "*", "*">>

\* C11 as claimed: the keywords contain no duplicates and are, as a set, the
\* substrings between non-overlapping left-to-right pairs of '**', wherever
\* the two delimiters of a pair stand; '**x** **x** **y**' yields {x, y}.
C11_KeywordsOfAnyPair ==
    keywords # None =>
        /\ NoDuplicates(keywords)
        /\ Range(keywords) = Delimited(note_text, 1, FALSE)
        /\ note_text = RepeatedKeywordText => Range(keywords) = {<<"x">>, <<"y">>}

\* C11, amended: the keywords contain no duplicates and are, as a set, the
\* substrings between non-overlapping left-to-right pairs of '**' whose two
\* delimiters have no newline between them; every keyword stands in the text
\* between two '**' and holds neither a newline nor a '**'; and
\* '**x** **x** **y**' yields {x, y}.
C11_KeywordsOfPairsOnOneLine ==
    keywords # None =>
        /\ NoDuplicates(keywords)
        /\ Range(keywords) = Delimited(note_text, 1, TRUE)
        /\ \A i \in 1..Len(keywords) :
              /\ \E p \in 1..Len(note_text) :
                    OccursAt(note_text, p, <<"*", "*">> \o keywords[i] \o <<"*", "*">>)
              /\ \A j \in 1..Len(keywords[i]) :
                    keywords[i][j] # "\n" /\ ~StarsAt(keywords[i], j)
        /\ note_text = RepeatedKeywordText => Range(keywords) = {<<"x">>, <<"y">>}

\* The keywords of '**x** **x** **y**' were extracted: three pairs, two
\* keywords, y listed before x.
C11_Witness ==
    /\ note_text = RepeatedKeywordText
    /\ keywords = <<<<"y">>, <<"x">>>>

---------------------------------------------------------------------------
(* Reading a note text's map suggestions, for the statements about them *)

\* the least member of a set of positions, 0 for the empty set
Least(S) == IF S = {} THEN 0 ELSE CHOOSE x \in S : \A y \in S : x <= y

\* The occurrence of  [<title>] - "<query>"  that begins with the '[' at p:
\* where its '] - "' and its closing '"' stand, 0 when there is none.  When
\* one_line, the title and the query hold no line break.
OccurrenceAt(s, p, one_line) ==
    LET mid == IF s[p] # "[" THEN 0
               ELSE Least({j \in (p + 1)..Len(s) :
                              /\ OccursAt(s, j, <<"]", " ", "-", " ", "\"">>)
                              /\ one_line => NoNewline(s, p + 1, j - 1)})
        close == IF mid = 0 THEN 0
                 ELSE Least({k \in (mid + 5)..Len(s) :
                                /\ s[k] = "\""
                                /\ one_line => NoNewline(s, mid + 5, k - 1)})
    IN  [mid |-> mid, close |-> close]

\* the occurrences from position from on, left to right, each beginning after
\* the one before it has ended: their titles and queries
RECURSIVE Occurrences(_, _, _)
Occurrences(s, from, one_line) ==
    LET p == Least({q \in from..Len(s) : OccurrenceAt(s, q, one_line).close # 0})
        at == OccurrenceAt(s, p, one_line)
    IN  IF p = 0 THEN <<>>
        ELSE <<[title |-> SubSeq(s, p + 1, at.mid - 1),
                query |-> SubSeq(s, at.mid + 5, at.close - 1)]>>
                 \o Occurrences(s, at.close + 1, one_line)

\* the list has one entry '<title>: <query>' per occurrence, in their order
IsMapListOf(list, occurrences) ==
    /\ Len(list) = Len(occurrences)
    /\ \A k \in 1..Len(list) :
          list[k] = occurrences[k].title \o <<":", " ">> \o occurrences[k].query

\* C12 as claimed: the maps list has one entry '<title>: <query>' per
\* occurrence of  [<title>] - "<query>", whatever the title and the query
\* hold, in the order of the occurrences, duplicates kept: two identical
\* occurrences yield two identical consecutive entries and the list is as
\* long as there are occurrences.
C12_MapsOfAnyOccurrence ==
    maps # None =>
        /\ IsMapListOf(maps, Occurrences(note_text, 1, FALSE))
        /\ note_text = MapTq \o MapTq =>
               maps = << <<"T", ":", " ", "q">>, <<"T", ":", " ", "q">> >>

\* C12, amended: the same of the occurrences whose title and query hold no
\* newline character.
C12_MapsOfOccurrencesOnOneLine ==
    maps # None =>
        /\ IsMapListOf(maps, Occurrences(note_text, 1, TRUE))
        /\ note_text = MapTq \o MapTq =>
               maps = << <<"T", ":", " ", "q">>, <<"T", ":", " ", "q">> >>

\* The maps of a text with '[T] - "q"' twice, on two lines, were extracted:
\* two occurrences, two equal entries.
C12_Witness ==
    /\ note_text = MapTq \o <<"\n">> \o MapTq
    /\ maps # None
    /\ Len(maps) = 2
    /\ maps[1] = maps[2]

---------------------------------------------------------------------------
(* Statements about save_notes_to_file *)

\* safe is title with each character of  <>:"/\|?*  replaced by an underscore
IsSanitizedTitleOf(safe, title) ==
    /\ Len(safe) = Len(title)
    /\ \A i \in 1..Len(title) :
          IF title[i] \in {"<", ">", ":", "\"", "/", "\\", "|", "?", "*"}
          THEN safe[i] = "_"
          ELSE safe[i] = title[i]

\* going from before to after, exactly the files  dir/<safe>.md  and
\* dir/<safe>.json  were written, safe the sanitized title; every other file
\* is as it was
WroteTheTwoFiles(before, after, dir, title, nts) ==
    \E md \in DOMAIN after, js \in DOMAIN after :
        /\ md.dir = dir /\ md.ext = "md" /\ IsSanitizedTitleOf(md.stem, title)
        /\ js.dir = dir /\ js.ext = "json" /\ js.stem = md.stem
        /\ DOMAIN after = (DOMAIN before) \cup {md, js}
        /\ \A q \in (DOMAIN after) \ {md, js} : after[q] = before[q]
        /\ after[md] = (IF nts.markdown \in {None, <<>>} THEN <<>> ELSE nts.markdown)
        /\ after[js] = [json |-> nts]

SaveReturned(call) == call.op = "save_notes_to_file" /\ call.exc = ""

\* C13: for every non-empty title and notes value, a call of
\* save_notes_to_file that returns has written exactly the two files
\* '<sanitized-title>.md' and '<sanitized-title>.json', the sanitized title
\* being the title with each character of <>:"/\|?* replaced by an
\* underscore; and a call that follows a call that returned, with the same
\* title and notes, leaves the output directory as that call left it.
C13_PersistIsIdempotent ==
    [][ (Truthy(video_title) /\ SaveReturned(last_call')) =>
           /\ WroteTheTwoFiles(last_call'.fs_before, fs', OutputDir, video_title, notes)
           /\ SaveReturned(last_call) => fs' = fs ]_vars

\* The notes were saved a second time under a title made of two characters
\* to be replaced, over a markdown file of content.
C13_Witness ==
    /\ SaveReturned(last_call)
    /\ video_title = <<":", "/">>
    /\ last_call.fs_before = fs
    /\ Path(OutputDir, <<"_", "_">>, "md") \in DOMAIN fs
    /\ fs[Path(OutputDir, <<"_", "_">>, "md")] = ExampleResponse
    /\ Path(OutputDir, <<"a">>, "txt") \in DOMAIN fs

---------------------------------------------------------------------------
(* Statements about the transcript of a run *)

\* a and b are the same transcript: as many segments, each with the same
\* start, end, text and confidence at the same place, and the same full_text,
\* language and duration
SameTranscript(a, b) ==
    /\ Len(a.segments) = Len(b.segments)
    /\ \A i \in 1..Len(a.segments) :
          /\ a.segments[i].start = b.segments[i].start
          /\ a.segments[i].end = b.segments[i].end
          /\ a.segments[i].text = b.segments[i].text
          /\ a.segments[i].confidence = b.segments[i].confidence
    /\ a.full_text = b.full_text
    /\ a.language = b.language
    /\ a.duration = b.duration

---------------------------------------------------------------------------
(* Statements about the title of a run *)

\* the title the run is to use, given the one it was called with and the one
\* audio acquisition extracted
TitleToUse(provided, extracted) ==
    IF provided = None \/ provided = <<>> \/ provided = DEFAULT_VIDEO_TITLE
    THEN extracted
    ELSE provided

\* C15: when no video title is provided (video_title is None, empty or the
\* default placeholder), the title used for note generation and for the
\* output filenames is the title audio acquisition extracted; when a
\* non-default, non-empty title is provided, that title is used and the
\* extracted title is ignored.
C15_TitleSelection ==
    LET title == TitleToUse(args.video_title, locals.extracted_title)
    IN  /\ "acquire" \in Range(hist.completed) => video_title = title
        /\ "generate" \in Range(hist.completed) => notes.metadata.title = title
        /\ "persist" \in Range(hist.completed) =>
               /\ locals.markdown_path.ext = "md"
               /\ IsSanitizedTitleOf(locals.markdown_path.stem, title)
               /\ Path(OutputDir, locals.markdown_path.stem, "json") \in DOMAIN fs

---------------------------------------------------------------------------
(* Statements about the outputs of a run *)

\* the file path exists and holds content
Holds(path, content) == path \in DOMAIN fs /\ fs[path] = content

\* the markdown file of the run's notes exists at the path the run returns
MarkdownWritten(markdown_path) ==
    /\ markdown_path.dir = OutputDir
    /\ markdown_path.ext = "md"
    /\ Holds(markdown_path,
             IF notes.markdown \in {None, <<>>} THEN <<>> ELSE notes.markdown)

\* the JSON sidecar of the run's notes exists next to the markdown file
SidecarWritten(markdown_path) ==
    Holds(Path(OutputDir, markdown_path.stem, "json"), [json |-> notes])

\* the three subtitle files of the run's transcript exist
SubtitlesWritten ==
    \A format_type \in {"srt", "vtt", "txt"} :
        /\ Path(SubtitlesDir, <<"subtitle">>, format_type) \in DOMAIN fs
        /\ LET content == fs[Path(SubtitlesDir, <<"subtitle">>, format_type)]
               lines == Split(content, "\n")
           IN  \* one line of text per segment, more in SRT and VTT
               /\ format_type = "srt" =>
                      (IF transcription.segments = <<>> THEN content = <<>>
                       ELSE Len(lines) = 4 * Len(transcription.segments))
               /\ format_type = "vtt" =>
                      /\ IsPrefix(<<"W", "E", "B", "V", "T", "T", "\n">>, content)
                      /\ Len(lines) = 2 + 3 * Len(transcription.segments)
               /\ format_type = "txt" =>
                      (IF transcription.segments = <<>> THEN content = <<>>
                       ELSE Len(lines) = Len(transcription.segments))

\* C16: success=true is returned only after all outputs have been written:
\* the notes markdown file, its JSON sidecar, transcription_data.json and,
\* when save_subtitles is true, the three subtitle files; and
\* transcription_data.json is written only after the notes have been
\* persisted.  When save_subtitles is false, no subtitle file is written and
\* the result's subtitles_dir is None.
C16_SuccessOnlyAfterAllOutputs ==
    /\ result.success =>
          /\ pc = "returned"
          /\ "persist" \in Range(hist.completed)
          /\ MarkdownWritten(result.markdown_path)
          \* the sidecar, unless the dump has gone to the same file after it
          /\ \/ SidecarWritten(result.markdown_path)
             \/ Path(OutputDir, result.markdown_path.stem, "json") = TranscriptionDataPath
          /\ Holds(TranscriptionDataPath, [json |-> transcription])
          /\ args.save_subtitles => SubtitlesWritten
    \* when the transcript is about to be dumped, and whenever it has been
    /\ (pc = "dump" \/ "dump" \in Range(hist.started)) =>
          "persist" \in Range(hist.completed)
    /\ pc = "dump" =>
          /\ MarkdownWritten(locals.markdown_path)
          /\ SidecarWritten(locals.markdown_path)
    /\ (TranscriptionDataPath \in DOMAIN fs
            /\ fs[TranscriptionDataPath] = [json |-> transcription]) =>
          "dump" \in Range(hist.completed)
    /\ ~args.save_subtitles =>
          /\ \A path \in DOMAIN fs : path.dir # SubtitlesDir
          /\ result.success => result.subtitles_dir = "None"

\* A run that was to save the subtitles returned success: six files.
C16_Witness ==
    /\ pc = "returned"
    /\ result.success
    /\ args.save_subtitles
    /\ transcription.segments # <<>>
    /\ notes.markdown # None
    /\ SidecarWritten(result.markdown_path)
    /\ Cardinality(DOMAIN fs) = 6

===========================================================================
